---- MODULE Spec2Model ----
(***************************************************************************)
(* A model of the token cache of the KBase auth client                     *)
(* (src/src/kbase/auth/_async/client.py): AsyncClient.get_token, the       *)
(* LRUCache it owns, the injected timer and the remote auth service.       *)
(*                                                                         *)
(* Time.  The timer counts seconds, cachefor counts milliseconds, and the  *)
(* code stores timer() + cachefor / 1000.  The model keeps every instant   *)
(* in milliseconds: an expiration is timer() * MsPerSec + cachefor, which  *)
(* is the same rational number scaled by 1000, and it is compared with     *)
(* timer() * MsPerSec.                                                     *)
(*                                                                         *)
(* The cache.  LRUCache comes from the cacheout package.  Its operations   *)
(* are modelled as the package implements them: an OrderedDict of values   *)
(* (least recently used first), a dict of expiration instants, get()       *)
(* deleting an expired entry and moving a live one to the end, set()       *)
(* running evict() (delete_expired(), then popitem() while full) when the  *)
(* key is new.  An asyncio task runs without interruption between awaits,  *)
(* and every cache method holds the cache's lock, so one cache call is one *)
(* atomic step.                                                            *)
(***************************************************************************)
EXTENDS Integers, Sequences, FiniteSets, TLC

VARIABLES
    client,       \* the client under construction or built: [impl, stage, args, error, http_open, requests]
    token_cache,  \* self._token_cache: [maxsize, cache, expire_times]
    user_cache,   \* the cache of the user resolver: [maxsize, cache, expire_times]
    clock,        \* what timer() returns, in seconds
    pc,           \* per task: "idle", or "fetching" (suspended at await self._get)
    arg,          \* per task: the token of the call in progress
    purged,       \* per task: the lookup of the call in progress deleted an expired entry
    miss_calls,   \* on_cache_miss.call_count
    fetches,      \* requests sent to the token endpoint
    last,         \* history: the last step taken
    fill,         \* history: the keys stored so far, while only new keys were stored
    hit_key,      \* history: the key last hit in a full cache, until the cache changes
    trace,        \* history: the calls completed so far, while they follow Script
    inserted,     \* history: per token, the record of its most recent insertion
    inserted_at,  \* history: per key in the cache, what timer() returned at its insertion
    locals        \* per task: the checked response of the call in progress (res)

vars == <<client, token_cache, user_cache, clock, pc, arg, purged, miss_calls, fetches, last, fill, hit_key, trace,
          inserted, inserted_at, locals>>

----------------------------------------------------------------------------
(* Bounds of the model *)

MaxFetches == 3
MaxSize == 2
ScenarioFetches == 7
KindsFetches == 4
RawFetches == 4

(* Program constants *)

MsPerSec == 1000
StartTime == 1000
DefaultCacheFor == 300000
AlmostTTL == 299
PastTTL == 2
TokenLifetime == 3600000
ScenarioSize == 3
DefaultCacheMaxSize == 10000
InvalidTokenCode == 10020
IllegalUserCode == 30010

----------------------------------------------------------------------------
(* Inputs: what a caller can pass as `token` *)

Whitespace == {" ", "\t"}

StrTok(c) == [type |-> "str", chars |-> c]

TokA == StrTok(<<"A">>)
TokB == StrTok(<<"B">>)
TokC == StrTok(<<"C">>)
TokD == StrTok(<<"D">>)
TokPadA == StrTok(<<" ", "A">>)
TokEmpty == StrTok(<<>>)
TokBlank == StrTok(<<" ", "\t">>)
TokNone == [type |-> "NoneType", chars |-> <<>>]
TokInt == [type |-> "int", chars |-> <<>>]

RECURSIVE LStrip(_)
LStrip(s) ==
    IF s = <<>> THEN s
    ELSE IF Head(s) \in Whitespace THEN LStrip(Tail(s)) ELSE s

RECURSIVE RStrip(_)
RStrip(s) ==
    IF s = <<>> THEN s
    ELSE IF s[Len(s)] \in Whitespace THEN RStrip(SubSeq(s, 1, Len(s) - 1)) ELSE s

Strip(s) == RStrip(LStrip(s))

(* _require_string accepts the value (TRUE) or raises ValueError (FALSE). *)
RequireStringOkLax(putative) == putative.type = "str"

RequireStringOk(putative) ==
    putative.type = "str" /\ Strip(putative.chars) /= <<>>

----------------------------------------------------------------------------
(* The LRU cache.  c is [maxsize, cache, expire_times]: cache is the       *)
(* OrderedDict as a sequence of [key, value], least recently used first;   *)
(* expire_times maps some of its keys to an expiration in milliseconds.    *)

NoValue == [absent |-> TRUE]

RECURSIVE SeqKeys(_)
SeqKeys(s) == IF s = <<>> THEN {} ELSE {Head(s).key} \cup SeqKeys(Tail(s))

Keys(c) == SeqKeys(c.cache)

KeyOrder(c) == [i \in 1..Len(c.cache) |-> c.cache[i].key]

RECURSIVE Without(_, _)
Without(s, k) ==
    IF s = <<>> THEN s
    ELSE IF Head(s).key = k THEN Without(Tail(s), k)
    ELSE <<Head(s)>> \o Without(Tail(s), k)

ValueOf(c, k) ==
    IF k \in Keys(c)
    THEN (CHOOSE i \in 1..Len(c.cache) : c.cache[i].key = k)
    ELSE 0

Lookup(c, k) ==
    IF k \in Keys(c) THEN c.cache[ValueOf(c, k)].value ELSE NoValue

EmptyMap == [x \in {} |-> 0]

NewCache(n) == [maxsize |-> n, cache |-> <<>>, expire_times |-> EmptyMap]

TimerMs(now) == now * MsPerSec

(* Cache._delete *)
CacheDelete(c, k) ==
    [c EXCEPT !.cache = Without(c.cache, k),
              !.expire_times = [x \in (DOMAIN c.expire_times) \ {k} |-> c.expire_times[x]]]

(* Cache.expired: an entry with no expiration never expires. *)
ExpiredStrict(c, k, now) ==
    k \in DOMAIN c.expire_times /\ c.expire_times[k] < TimerMs(now)

Expired(c, k, now) ==
    k \in DOMAIN c.expire_times /\ c.expire_times[k] <= TimerMs(now)

(* LRUCache._touch: move_to_end *)
Touch(c, k) ==
    IF k \in Keys(c)
    THEN [c EXCEPT !.cache = Without(c.cache, k) \o <<[key |-> k, value |-> Lookup(c, k)]>>]
    ELSE c

(* LRUCache.get(key, default=False): [cache, value]; value = NoValue stands *)
(* for the default.                                                        *)
CacheGetNoTouch(c, k, now) ==
    IF k \notin Keys(c) THEN [cache |-> c, value |-> NoValue]
    ELSE IF Expired(c, k, now) THEN [cache |-> CacheDelete(c, k), value |-> NoValue]
    ELSE [cache |-> c, value |-> Lookup(c, k)]

CacheGet(c, k, now) ==
    IF k \notin Keys(c) THEN [cache |-> c, value |-> NoValue]
    ELSE IF Expired(c, k, now) THEN [cache |-> CacheDelete(c, k), value |-> NoValue]
    ELSE [cache |-> Touch(c, k), value |-> Lookup(c, k)]

(* Cache.delete_expired *)
RECURSIVE DeleteAll(_, _)
DeleteAll(c, ks) ==
    IF ks = {} THEN c
    ELSE LET k == CHOOSE x \in ks : TRUE IN DeleteAll(CacheDelete(c, k), ks \ {k})

DeleteExpired(c, now) ==
    DeleteAll(c, {k \in DOMAIN c.expire_times : c.expire_times[k] <= TimerMs(now)})

(* Cache.full *)
FullOffByOne(c) == Len(c.cache) > c.maxsize

Full(c) == Len(c.cache) >= c.maxsize

(* Cache.popitem: the first key of the OrderedDict *)
PopitemNewest(c) == CacheDelete(c, c.cache[Len(c.cache)].key)

Popitem(c) == CacheDelete(c, c.cache[1].key)

RECURSIVE PopWhileFull(_)
PopWhileFull(c) ==
    IF Full(c) /\ c.cache /= <<>> THEN PopWhileFull(Popitem(c)) ELSE c

(* Cache.evict *)
EvictWithoutPurge(c, now) == PopWhileFull(c)

Evict(c, now) == PopWhileFull(DeleteExpired(c, now))

(* Cache.set(key, value, ttl), with ttl = cachefor / 1000 *)
StoreExpiration(c, k, cachefor, now) ==
    IF cachefor > 0
    THEN [c EXCEPT !.expire_times =
            [x \in (DOMAIN c.expire_times) \cup {k} |->
                IF x = k THEN TimerMs(now) + cachefor ELSE c.expire_times[x]]]
    ELSE c

CacheSetUnlessFull(c, k, v, cachefor, now) ==
    LET c2 == CacheDelete(c, k)
        c3 == [c2 EXCEPT !.cache = c2.cache \o <<[key |-> k, value |-> v]>>]
    IN IF Full(c) /\ k \notin Keys(c) THEN c ELSE StoreExpiration(c3, k, cachefor, now)

CacheSetIfAbsent(c, k, v, cachefor, now) ==
    LET looked == CacheGet(c, k, now)
        c1 == Evict(looked.cache, now)
        c3 == [c1 EXCEPT !.cache = c1.cache \o <<[key |-> k, value |-> v]>>]
    IN IF looked.value = NoValue THEN StoreExpiration(c3, k, cachefor, now) ELSE looked.cache

CacheSet(c, k, v, cachefor, now) ==
    LET looked == CacheGet(c, k, now)
        c1 == IF looked.value = NoValue THEN Evict(looked.cache, now) ELSE looked.cache
        c2 == CacheDelete(c1, k)
        c3 == [c2 EXCEPT !.cache = c2.cache \o <<[key |-> k, value |-> v]>>]
    IN StoreExpiration(c3, k, cachefor, now)

----------------------------------------------------------------------------
(* The auth service: what a GET of the token endpoint can bring back *)

CacheFors == {DefaultCacheFor, 0, 0 - MsPerSec}

TTLSeconds == DefaultCacheFor \div MsPerSec

Body(token, cachefor) ==
    [id |-> token.chars, user |-> token.chars, created |-> 0,
     expires |-> TokenLifetime, cachefor |-> cachefor,
     type |-> "Login", name |-> "", custom |-> ""]

OkResponse(token, cachefor) ==
    [kind |-> "json", status |-> 200, appcode |-> 0, body |-> Body(token, cachefor)]

(* The body of an error of the auth service: {"error": {"appcode": ..., "message": ...}} *)
ErrorBody(appcode) == [error |-> [appcode |-> appcode, message |-> ""]]

FailResponse(kind, status, appcode) ==
    [kind |-> kind, status |-> status, appcode |-> appcode,
     body |-> IF kind = "json" THEN ErrorBody(appcode) ELSE NoValue]

(* A response whose body is JSON of another shape: the object {} *)
EmptyObject == [x \in {} |-> 0]

ObjectResponse(status) ==
    [kind |-> "json", status |-> status, appcode |-> 0, body |-> EmptyObject]

AllFailures ==
    { FailResponse("transport", 0, 0),
      FailResponse("nonjson", 404, 0),
      FailResponse("nonjson", 200, 0),
      FailResponse("json", 401, InvalidTokenCode),
      FailResponse("json", 400, IllegalUserCode),
      FailResponse("json", 500, 0),
      ObjectResponse(500),
      ObjectResponse(200) }

Responses(token, cachefors, failures) ==
    {OkResponse(token, cf) : cf \in cachefors} \cup failures

(* How a call ends *)
Returned(tk) == [kind |-> "token", err |-> "", value |-> tk]
Raised(e) == [kind |-> "error", err |-> e, value |-> NoValue]
NoResult == [kind |-> "none", err |-> "", value |-> NoValue]

(* _get: the request, then _check_response.  [err, json] *)
Get(r) ==
    IF r.kind = "transport" THEN [err |-> "httpx.TransportError", json |-> NoValue]
    ELSE IF r.kind = "nonjson" THEN [err |-> "IOError", json |-> NoValue]
    ELSE IF r.status /= 200 THEN
        IF "error" \notin DOMAIN r.body THEN [err |-> "KeyError", json |-> NoValue]
        ELSE IF r.body.error.appcode = InvalidTokenCode
            THEN [err |-> "InvalidTokenError", json |-> NoValue]
        ELSE IF r.body.error.appcode = IllegalUserCode
            THEN [err |-> "InvalidUserError", json |-> NoValue]
        ELSE [err |-> "IOError", json |-> NoValue]
    ELSE [err |-> "", json |-> r.body]

(* _VALID_TOKEN_FIELDS, and what the Token constructor raises when the     *)
(* response lacks one of them                                              *)
ValidTokenFields == {"id", "user", "created", "expires", "cachefor"}

TokenError(res) == IF ValidTokenFields \subseteq DOMAIN res THEN "" ELSE "TypeError"

(* The Token built from the fields of the response that are Token fields *)
Token(res) ==
    [id |-> res.id, user |-> res.user, created |-> res.created,
     expires |-> res.expires, cachefor |-> res.cachefor]

----------------------------------------------------------------------------
(* The steps *)

NoTok == [type |-> "", chars |-> <<>>]

(* What the last step was: the operation, its task, its token, the kind of *)
(* callback passed ("unused" when the step never came to look at it), how  *)
(* the call ended if the step ended it, the keys the step took out of the  *)
(* cache; for a step that resumes, the response it resumed with and        *)
(* whether the call's lookup had deleted an expired entry; for a step that *)
(* stores, the key that had last been hit in the full cache it stores into.*)
NoResponse == FailResponse("", 0, 0)

Step(op, p, token, cb, result, after, r) ==
    [op |-> op, task |-> p, token |-> token, cb |-> cb, result |-> result,
     removed |-> Keys(token_cache) \ Keys(after),
     resp |-> r,
     purged |-> IF op = "resume" THEN purged[p] ELSE FALSE,
     replaced |-> op = "resume" /\ result.kind = "token" /\ token \in Keys(token_cache),
     after_hit |-> IF op = "resume" /\ result.kind = "token" THEN hit_key ELSE NoTok]

IsHit(l) == l.op = "call" /\ l.result.kind = "token"

IsStore(l) == l.op = "resume" /\ l.result.kind = "token"

RECURSIVE Range(_)
Range(q) == IF q = <<>> THEN {} ELSE {Head(q)} \cup Range(Tail(q))

(* The calls of test_get_token_cache_evict_on_size, then D, B and C again *)
Script == <<TokA, TokB, TokC, TokA, TokB, TokC, TokD, TokA, TokD, TokB, TokC>>

Off == [ok |-> FALSE, keys |-> <<>>]

(* The history variables after the step that last' describes.  fill lists  *)
(* the keys in the order they were stored, and is given up at the first    *)
(* hit, clock advance or second store of a key.  hit_key is the key of a   *)
(* hit in a full cache, and is forgotten when the cache next changes.      *)
(* trace lists the completed calls (token, hit or not), and is given up    *)
(* when a call departs from Script, fails, or the clock advances.          *)
Observe(l, after) ==
    /\ inserted' =
        IF IsStore(l)
        THEN [k \in DOMAIN inserted \cup {l.token} |->
                 IF k = l.token THEN l.result.value ELSE inserted[k]]
        ELSE inserted
    /\ inserted_at' =
        [k \in Keys(after) |->
            IF k \in Keys(token_cache)
               /\ ~(l.op \in {"resume", "store"} /\ l.result.kind = "token" /\ k = l.token)
            THEN inserted_at[k]
            ELSE clock]
    /\ fill' =
        IF ~fill.ok THEN fill
        ELSE IF IsHit(l) \/ l.op = "advance" THEN Off
        ELSE IF IsStore(l)
             THEN IF l.token \in Range(fill.keys) THEN Off
                  ELSE [ok |-> TRUE, keys |-> Append(fill.keys, l.token)]
        ELSE fill
    /\ hit_key' =
        IF IsHit(l) /\ Full(token_cache) THEN l.token
        ELSE IF after /= token_cache THEN NoTok
        ELSE hit_key
    /\ trace' =
        IF ~trace.ok THEN trace
        ELSE IF Len(trace.keys) < Len(Script) /\ l.token = Script[Len(trace.keys) + 1]
             THEN IF IsHit(l) \/ IsStore(l)
                  THEN [ok |-> TRUE,
                        keys |-> Append(trace.keys, [token |-> l.token, hit |-> IsHit(l)])]
                  ELSE IF l.op = "call" /\ l.result = NoResult THEN trace
                  ELSE Off
        ELSE Off

(* The answers of the root of the service to create *)
NoAnswer == FailResponse("", 0, 0)

RootResponse(name) ==
    [kind |-> "json", status |-> 200, appcode |-> 0,
     body |-> [servicename |-> name, version |-> "0.7.1"]]

RootResponses ==
    { RootResponse("Authentication Service"), RootResponse("Groups"),
      ObjectResponse(200), FailResponse("nonjson", 404, 0), FailResponse("nonjson", 200, 0),
      FailResponse("json", 500, 0), ObjectResponse(500), FailResponse("transport", 0, 0) }

(* create and __init__.  The arguments of create: base_url, and           *)
(* cache_max_size and timer when the caller passes them (<<>> and          *)
(* "unpassed" when not).                                                   *)
UrlOk == StrTok(<<"u">>)

CreateArgs(url, size, timer) == [base_url |-> url, cache_max_size |-> size, timer |-> timer]

NewClient(impl, args) ==
    [impl |-> impl, stage |-> "new", args |-> args, error |-> "", http_open |-> FALSE,
     requests |-> 0, answer |-> NoAnswer]

(* The client that AsyncClient.create returned for a cache of n entries *)
ReadyClient(n) ==
    [impl |-> "async", stage |-> "ready", args |-> CreateArgs(UrlOk, <<n>>, "timer"),
     error |-> "", http_open |-> TRUE, requests |-> 1,
     answer |-> RootResponse("Authentication Service")]

Failed(c, e) == [c EXCEPT !.stage = "failed", !.error = e, !.http_open = FALSE]

(* AsyncClient.__init__ up to the cache: the error it raises, "" if none.  *)
(* cache_max_size defaults to 10000 and timer to time.time.                *)
AsyncInitError(args) ==
    IF ~RequireStringOk(args.base_url)
    THEN "ValueError: base_url is required and cannot be a whitespace only string"
    ELSE IF args.cache_max_size /= <<>> /\ args.cache_max_size[1] < 1
    THEN "ValueError: cache_max_size must be > 0"
    ELSE IF args.timer = "None" THEN "ValueError: timer is required"
    ELSE ""

(* Client.create(cls, base_url) and Client.__init__(self, base_url): the   *)
(* error of the call, "" if none.  An argument the signature does not      *)
(* have is a TypeError of the call itself.                                 *)
SyncInitError(args) ==
    IF args.cache_max_size /= <<>> \/ args.timer /= "unpassed"
    THEN "TypeError: create() got an unexpected keyword argument"
    ELSE IF ~RequireStringOk(args.base_url)
    THEN "ValueError: base_url is required and cannot be a whitespace only string"
    ELSE ""

(* create after _get: the error raised, "" if none *)
CreateError(r) ==
    IF Get(r).err /= "" THEN Get(r).err
    ELSE IF "servicename" \in DOMAIN Get(r).json
            /\ Get(r).json.servicename = "Authentication Service" THEN ""
    ELSE "IOError: not the KBase auth service"

NoCache == [maxsize |-> 0, cache |-> <<>>, expire_times |-> EmptyMap]

CacheOf(args) ==
    NewCache(IF args.cache_max_size = <<>> THEN DefaultCacheMaxSize ELSE args.cache_max_size[1])

(* AsyncClient.create up to its await: cls(...), then the request sent *)
AsyncCreate ==
    /\ client.impl = "async"
    /\ client.stage = "new"
    /\ IF AsyncInitError(client.args) /= ""
       THEN /\ client' = Failed(client, AsyncInitError(client.args))
            /\ UNCHANGED token_cache
       ELSE /\ token_cache' = CacheOf(client.args)
            /\ client' = [client EXCEPT !.stage = "probing", !.http_open = TRUE, !.requests = 1]
    /\ UNCHANGED <<user_cache, clock, pc, arg, purged, miss_calls, fetches, last, fill, hit_key, trace,
                   inserted, inserted_at, locals>>

(* AsyncClient.create from its await on *)
AsyncCreateResume(r) ==
    /\ client.impl = "async"
    /\ client.stage = "probing"
    /\ client' = IF CreateError(r) /= ""
                  THEN [Failed(client, CreateError(r)) EXCEPT !.answer = r]
                  ELSE [client EXCEPT !.stage = "ready", !.answer = r]
    /\ UNCHANGED <<token_cache, user_cache, clock, pc, arg, purged, miss_calls, fetches, last, fill,
                   hit_key, trace, inserted, inserted_at, locals>>

(* Client.create: the whole call, the blocking request included *)
SyncCreate(r) ==
    /\ client.impl = "sync"
    /\ client.stage = "new"
    /\ client' =
         IF SyncInitError(client.args) /= "" THEN Failed(client, SyncInitError(client.args))
         ELSE IF CreateError(r) /= ""
              THEN [Failed(client, CreateError(r)) EXCEPT !.requests = 1, !.answer = r]
         ELSE [client EXCEPT !.stage = "ready", !.http_open = TRUE, !.requests = 1, !.answer = r]
    /\ UNCHANGED <<token_cache, user_cache, clock, pc, arg, purged, miss_calls, fetches, last, fill,
                   hit_key, trace, inserted, inserted_at, locals>>

NoLocals == [res |-> NoValue]

Init(sizes) ==
    /\ token_cache \in {NewCache(n) : n \in sizes}
    /\ user_cache = NewCache(token_cache.maxsize)
    /\ client = ReadyClient(token_cache.maxsize)
    /\ clock = StartTime
    /\ pc = [p \in {1, 2} |-> "idle"]
    /\ arg = [p \in {1, 2} |-> NoTok]
    /\ miss_calls = 0
    /\ fetches = 0
    /\ purged = [p \in {1, 2} |-> FALSE]
    /\ last = [op |-> "init", task |-> 0, token |-> NoTok, cb |-> "", result |-> NoResult,
               removed |-> {}, resp |-> NoResponse, purged |-> FALSE, replaced |-> FALSE,
               after_hit |-> NoTok]
    /\ fill = [ok |-> TRUE, keys |-> <<>>]
    /\ hit_key = NoTok
    /\ trace = [ok |-> TRUE, keys |-> <<>>]
    /\ inserted = EmptyMap
    /\ inserted_at = EmptyMap
    /\ locals = [p \in {1, 2} |-> NoLocals]

(* The key get_token passes to the cache and the token it sends in the    *)
(* Authorization header: its argument as it came; what _require_string     *)
(* returns is dropped.                                                     *)
CacheKeyStripped(token) == StrTok(Strip(token.chars))

CacheKey(token) == token

AuthHeader(token) == token

(* How many times get_token invokes on_cache_miss: not at all on a hit or  *)
(* without a callback, once on a miss.                                     *)
OnCacheMissCallsEager(cb, hit) == IF cb = "none" THEN 0 ELSE 1

OnCacheMissCalls(cb, hit) == IF hit \/ cb = "none" THEN 0 ELSE 1

(* Whether the call of on_cache_miss at line 151 ends in an exception.     *)
(* The call stands on its own at lines 150-151, outside any try: what the  *)
(* callback raises leaves get_token there.                                 *)
CallbackRaisesSuppressed(cb) == FALSE

CallbackRaises(cb) == cb = "raises"

(* get_token up to its await: _require_string, the cache lookup, the miss  *)
(* callback, the request sent.  cb: "none" (no callback), "ok", "raises".  *)
(* limit caps the requests and callback invocations of a behaviour.        *)
GetTokenCall(p, token, cb, limit) ==
    /\ client.impl = "async"
    /\ client.stage = "ready"
    /\ pc[p] = "idle"
    /\ UNCHANGED <<client, user_cache, locals>>
    /\ clock' = clock
    /\ IF ~RequireStringOk(token)
       THEN /\ last' = Step("call", p, token, "unused", Raised("ValueError"), token_cache, NoResponse)
            /\ UNCHANGED <<token_cache, pc, arg, purged, miss_calls, fetches>>
       ELSE LET got == CacheGet(token_cache, CacheKey(token), clock) IN
            /\ token_cache' = got.cache
            /\ IF got.value /= NoValue
               THEN /\ last' = Step("call", p, token, "unused", Returned(got.value), got.cache, NoResponse)
                    /\ miss_calls' = miss_calls + OnCacheMissCalls(cb, TRUE)
                    /\ UNCHANGED <<pc, arg, purged, fetches>>
               ELSE /\ fetches < limit
                    /\ miss_calls < limit
                    /\ IF CallbackRaises(cb)
                       THEN /\ miss_calls' = miss_calls + OnCacheMissCalls(cb, FALSE)
                            /\ last' = Step("call", p, token, cb, Raised("CallbackError"), got.cache, NoResponse)
                            /\ UNCHANGED <<pc, arg, purged, fetches>>
                       ELSE /\ miss_calls' = miss_calls + OnCacheMissCalls(cb, FALSE)
                            /\ fetches' = fetches + 1
                            /\ pc' = [pc EXCEPT ![p] = "fetching"]
                            /\ arg' = [arg EXCEPT ![p] = token]
                            /\ purged' = [purged EXCEPT ![p] = got.cache /= token_cache]
                            /\ last' = Step("call", p, token, cb, NoResult, got.cache, NoResponse)
    /\ Observe(last', token_cache')

(* What get_token does with a failure of the awaited _get: nothing, it     *)
(* propagates, whatever the cache holds for the token by then.             *)
OnFetchErrorFallBack(err, cached) ==
    IF cached /= NoValue THEN Returned(cached) ELSE Raised(err)

OnFetchError(err, cached) == Raised(err)

(* get_token from its await on: the response checked, the Token built and  *)
(* stored, or the failure raised.                                          *)
GetTokenResume(p, r) ==
    /\ pc[p] = "fetching"
    /\ UNCHANGED <<client, user_cache, locals>>
    /\ pc' = [pc EXCEPT ![p] = "idle"]
    /\ arg' = [arg EXCEPT ![p] = NoTok]
    /\ purged' = [purged EXCEPT ![p] = FALSE]
    /\ IF Get(r).err /= ""
       THEN /\ last' = Step("resume", p, arg[p], "", OnFetchError(Get(r).err, Lookup(token_cache, arg[p])),
                            token_cache, r)
            /\ UNCHANGED token_cache
       ELSE IF TokenError(Get(r).json) /= ""
       THEN /\ last' = Step("resume", p, arg[p], "", Raised(TokenError(Get(r).json)), token_cache, r)
            /\ UNCHANGED token_cache
       ELSE LET tk == Token(Get(r).json)
                stored == CacheSet(token_cache, CacheKey(arg[p]), tk, tk.cachefor, clock)
            IN /\ token_cache' = stored
               /\ last' = Step("resume", p, arg[p], "", Returned(tk), stored, r)
    /\ UNCHANGED <<clock, miss_calls, fetches>>
    /\ Observe(last', token_cache')

(* What get_token does with the cache when the task is cancelled at its    *)
(* await: nothing.  asyncio raises CancelledError at line 152; get_token   *)
(* and _get have no except or finally clause, so lines 153-158 never run.  *)
OnCancelDiscard(c, k) == CacheDelete(c, k)

OnCancel(c, k) == c

(* get_token cancelled while suspended at the request *)
GetTokenCancel(p) ==
    /\ pc[p] = "fetching"
    /\ UNCHANGED <<client, user_cache, locals>>
    /\ pc' = [pc EXCEPT ![p] = "idle"]
    /\ arg' = [arg EXCEPT ![p] = NoTok]
    /\ purged' = [purged EXCEPT ![p] = FALSE]
    /\ token_cache' = OnCancel(token_cache, CacheKey(arg[p]))
    /\ last' = Step("cancel", p, arg[p], "", Raised("CancelledError"), token_cache', NoResponse)
    /\ UNCHANGED <<clock, miss_calls, fetches>>
    /\ Observe(last', token_cache')

(* get_token called on the sync Client: the class defines create, close,  *)
(* _get and service_version and nothing else, so the attribute lookup      *)
(* fails before anything runs.                                             *)
SyncGetToken(p, token) ==
    /\ client.impl = "sync"
    /\ client.stage = "ready"
    /\ last' = Step("call", p, token, "unused", Raised("AttributeError"), token_cache, NoResponse)
    /\ UNCHANGED <<client, token_cache, user_cache, clock, pc, arg, purged, miss_calls, fetches,
                   locals>>
    /\ Observe(last', token_cache')

(* FakeTimer.advance: the timer moves on to t *)
Advance(t) ==
    /\ client.stage = "ready"
    /\ t > clock
    /\ UNCHANGED <<client, user_cache, locals>>
    /\ clock' = t
    /\ last' = Step("advance", 0, NoTok, "", NoResult, token_cache, NoResponse)
    /\ UNCHANGED <<token_cache, pc, arg, purged, miss_calls, fetches>>
    /\ Observe(last', token_cache')

(* get_token statement by statement.  A coroutine gives up the event loop *)
(* only at an await that suspends, and get_token has one: the request,     *)
(* awaited at line 152 through _get (line 131).  pc: "validated" after     *)
(* 146, "missed" after 147-148, "notified" after 150-151, "fetching" at    *)
(* the await, "checked" once _get has returned, "built" after 153.  A task *)
(* runs a statement only while every other task is suspended or idle.      *)
AwaitPointsWithCallback == {"fetching", "missed"}

AwaitPoints == {"fetching"}

CanRun(p) == \A q \in {1, 2} \ {p} : pc[q] \in {"idle"} \cup AwaitPoints

(* A task suspended at line 152 goes on once its response is there and the *)
(* event loop is free: get_token takes no lock and awaits nothing but its  *)
(* own request, so it waits for no other call to end.                      *)
CanResumeAfterPeers(p) == \A q \in {1, 2} \ {p} : pc[q] = "idle"

CanResume(p) == CanRun(p)

Statement(p, op, cb, result, to, after) ==
    /\ pc' = [pc EXCEPT ![p] = to]
    /\ last' = Step(op, p, arg'[p], cb, result, after, NoResponse)
    /\ Observe(last', after)
    /\ UNCHANGED <<client, user_cache, clock, purged>>

(* line 146 *)
GetTokenValidate(p, token) ==
    /\ client.impl = "async" /\ client.stage = "ready"
    /\ pc[p] = "idle" /\ CanRun(p)
    /\ arg' = [arg EXCEPT ![p] = token]
    /\ IF RequireStringOk(token)
       THEN Statement(p, "validate", "", NoResult, "validated", token_cache)
       ELSE Statement(p, "validate", "", Raised("ValueError"), "idle", token_cache)
    /\ UNCHANGED <<token_cache, miss_calls, fetches, locals>>

(* lines 147-149 *)
GetTokenLookup(p) ==
    /\ pc[p] = "validated" /\ CanRun(p)
    /\ LET got == CacheGet(token_cache, CacheKey(arg[p]), clock) IN
         /\ token_cache' = got.cache
         /\ arg' = arg
         /\ IF got.value /= NoValue
            THEN Statement(p, "lookup", "", Returned(got.value), "idle", got.cache)
            ELSE Statement(p, "lookup", "", NoResult, "missed", got.cache)
    /\ UNCHANGED <<miss_calls, fetches, locals>>

(* lines 150-151 *)
GetTokenNotify(p, cb, limit) ==
    /\ pc[p] = "missed" /\ CanRun(p)
    /\ miss_calls < limit
    /\ miss_calls' = miss_calls + OnCacheMissCalls(cb, FALSE)
    /\ arg' = arg
    /\ IF CallbackRaises(cb)
       THEN Statement(p, "notify", cb, Raised("CallbackError"), "idle", token_cache)
       ELSE Statement(p, "notify", cb, NoResult, "notified", token_cache)
    /\ UNCHANGED <<token_cache, fetches, locals>>

(* line 152 up to the await: the request goes out *)
GetTokenSend(p, limit) ==
    /\ pc[p] = "notified" /\ CanRun(p)
    /\ fetches < limit
    /\ fetches' = fetches + 1
    /\ arg' = arg
    /\ Statement(p, "send", "", NoResult, "fetching", token_cache)
    /\ UNCHANGED <<token_cache, miss_calls, locals>>

(* lines 131-132 and 152 from the await on: the response, checked *)
GetTokenCheck(p, r) ==
    /\ pc[p] = "fetching" /\ CanResume(p)
    /\ arg' = arg
    /\ IF Get(r).err /= ""
       THEN /\ Statement(p, "check", "", OnFetchError(Get(r).err, Lookup(token_cache, arg[p])),
                         "idle", token_cache)
            /\ UNCHANGED locals
       ELSE /\ Statement(p, "check", "", NoResult, "checked", token_cache)
            /\ locals' = [locals EXCEPT ![p] = [res |-> Get(r).json]]
    /\ UNCHANGED <<token_cache, miss_calls, fetches>>

(* line 153 *)
GetTokenBuild(p) ==
    /\ pc[p] = "checked" /\ CanRun(p)
    /\ arg' = arg
    /\ IF TokenError(locals[p].res) /= ""
       THEN /\ Statement(p, "build", "", Raised(TokenError(locals[p].res)), "idle", token_cache)
            /\ locals' = [locals EXCEPT ![p] = NoLocals]
       ELSE /\ Statement(p, "build", "", NoResult, "built", token_cache)
            /\ UNCHANGED locals
    /\ UNCHANGED <<token_cache, miss_calls, fetches>>

(* lines 157-158 *)
GetTokenStore(p) ==
    /\ pc[p] = "built" /\ CanRun(p)
    /\ LET tk == Token(locals[p].res)
           stored == CacheSet(token_cache, CacheKey(arg[p]), tk, tk.cachefor, clock)
       IN /\ token_cache' = stored
          /\ arg' = arg
          /\ Statement(p, "store", "", Returned(tk), "idle", stored)
    /\ locals' = [locals EXCEPT ![p] = NoLocals]
    /\ UNCHANGED <<miss_calls, fetches>>

(* The timer advances while no task is between two statements *)
AdvanceBetween(t) ==
    /\ \A q \in {1, 2} : pc[q] \in {"idle"} \cup AwaitPoints
    /\ Advance(t)

Callbacks == {"none", "ok", "raises"}

Steps(tasks, inputs, callbacks, cachefors, failures, times, limit) ==
    \/ \E p \in tasks, t \in inputs, cb \in callbacks : GetTokenCall(p, t, cb, limit)
    \/ \E p \in tasks : \E r \in Responses(AuthHeader(arg[p]), cachefors, failures) :
          GetTokenResume(p, r)
    \/ \E t \in times : Advance(t)

(* The user resolver (resolve_user, the tests' get_user): the resolver of  *)
(* get_token over the User record and a cache of its own.  The lookup and  *)
(* the insertion take and give back both caches.                           *)
User(res) == [user |-> res.user, customroles |-> res.customroles]

UserBody(token, cachefor) ==
    [user |-> token.chars, customroles |-> <<>>, cachefor |-> cachefor]

UserResponse(token, cachefor) ==
    [kind |-> "json", status |-> 200, appcode |-> 0, body |-> UserBody(token, cachefor)]

UserLookupShared(tc, uc, k, now) ==
    [token_cache |-> CacheGet(tc, k, now).cache, user_cache |-> uc,
     value |-> CacheGet(tc, k, now).value]

UserLookup(tc, uc, k, now) ==
    [token_cache |-> tc, user_cache |-> CacheGet(uc, k, now).cache,
     value |-> CacheGet(uc, k, now).value]

UserStore(tc, uc, k, v, cachefor, now) ==
    [token_cache |-> tc, user_cache |-> CacheSet(uc, k, v, cachefor, now)]

GetUserCall(p, token, cb, limit) ==
    /\ client.stage = "ready"
    /\ pc[p] = "idle"
    /\ IF ~RequireStringOk(token)
       THEN /\ last' = Step("user_call", p, token, "unused", Raised("ValueError"), token_cache,
                            NoResponse)
            /\ UNCHANGED <<token_cache, user_cache, pc, arg, miss_calls, fetches>>
       ELSE LET got == UserLookup(token_cache, user_cache, token, clock) IN
            /\ token_cache' = got.token_cache
            /\ user_cache' = got.user_cache
            /\ IF got.value /= NoValue
               THEN /\ last' = Step("user_call", p, token, "unused", Returned(got.value),
                                    got.token_cache, NoResponse)
                    /\ UNCHANGED <<pc, arg, miss_calls, fetches>>
               ELSE /\ fetches < limit
                    /\ miss_calls < limit
                    /\ miss_calls' = miss_calls + OnCacheMissCalls(cb, FALSE)
                    /\ IF CallbackRaises(cb)
                       THEN /\ last' = Step("user_call", p, token, cb, Raised("CallbackError"),
                                            got.token_cache, NoResponse)
                            /\ UNCHANGED <<pc, arg, fetches>>
                       ELSE /\ fetches' = fetches + 1
                            /\ pc' = [pc EXCEPT ![p] = "fetching_user"]
                            /\ arg' = [arg EXCEPT ![p] = token]
                            /\ last' = Step("user_call", p, token, cb, NoResult,
                                            got.token_cache, NoResponse)
    /\ UNCHANGED <<client, clock, purged, locals>>
    /\ Observe(last', token_cache')

GetUserResume(p, r) ==
    /\ pc[p] = "fetching_user"
    /\ pc' = [pc EXCEPT ![p] = "idle"]
    /\ arg' = [arg EXCEPT ![p] = NoTok]
    /\ IF Get(r).err /= ""
       THEN /\ last' = Step("user_resume", p, arg[p], "", Raised(Get(r).err), token_cache, r)
            /\ UNCHANGED <<token_cache, user_cache>>
       ELSE LET stored == UserStore(token_cache, user_cache, arg[p], User(Get(r).json),
                                    Get(r).json.cachefor, clock)
            IN /\ token_cache' = stored.token_cache
               /\ user_cache' = stored.user_cache
               /\ last' = Step("user_resume", p, arg[p], "", Returned(User(Get(r).json)),
                               stored.token_cache, r)
    /\ UNCHANGED <<client, clock, purged, miss_calls, fetches, locals>>
    /\ Observe(last', token_cache')

UserSteps(tasks, inputs, callbacks, cachefors, failures, limit) ==
    \/ \E p \in tasks, t \in inputs, cb \in callbacks : GetUserCall(p, t, cb, limit)
    \/ \E p \in tasks : \E r \in {UserResponse(arg[p], cf) : cf \in cachefors} \cup failures :
          GetUserResume(p, r)

(* Two tasks calling get_token concurrently on a cache of 1..MaxSize entries *)
Next ==
    Steps({1, 2}, {TokA, TokB, TokC, TokBlank}, {"ok", "raises"}, {DefaultCacheFor, 0},
          {FailResponse("json", 401, InvalidTokenCode), FailResponse("transport", 0, 0)},
          {StartTime + TTLSeconds}, MaxFetches)

Spec == Init(1..MaxSize) /\ [][Next]_vars

(* One task, every kind of input, callback and response *)
NextSeq ==
    Steps({1}, {TokA, TokB, TokEmpty, TokBlank, TokNone, TokInt}, Callbacks, CacheFors,
          AllFailures, {StartTime + AlmostTTL, StartTime + TTLSeconds}, MaxFetches)

SpecSeq == Init(1..MaxSize) /\ [][NextSeq]_vars

(* One task and four tokens on a cache of three entries, as in             *)
(* test_get_token_cache_evict_on_size                                      *)
NextScenario ==
    Steps({1}, {TokA, TokB, TokC, TokD}, {"ok"}, {DefaultCacheFor},
          {FailResponse("json", 401, InvalidTokenCode)}, {StartTime + AlmostTTL},
          ScenarioFetches)

SpecScenario == Init({ScenarioSize}) /\ [][NextScenario]_vars

(* One task calling get_token and get_user for the same tokens *)
NextKinds ==
    \/ Steps({1}, {TokA, TokB, TokC}, {"ok"}, {DefaultCacheFor},
             {FailResponse("json", 401, InvalidTokenCode)}, {StartTime + TTLSeconds}, KindsFetches)
    \/ UserSteps({1}, {TokA, TokB, TokC, TokBlank}, {"ok", "raises"}, {DefaultCacheFor},
                 {FailResponse("json", 401, InvalidTokenCode)}, KindsFetches)

SpecKinds == Init(1..MaxSize) /\ [][NextKinds]_vars

(* One task calling get_token with a token and with the same token padded *)
NextRaw ==
    Steps({1}, {TokA, TokPadA, TokBlank}, {"ok"}, {DefaultCacheFor},
          {FailResponse("json", 401, InvalidTokenCode)},
          {StartTime + AlmostTTL, StartTime + TTLSeconds}, RawFetches)

SpecRaw == Init(1..MaxSize) /\ [][NextRaw]_vars

(* Two tasks running get_token statement by statement *)
NextFine ==
    \/ \E p \in {1, 2}, t \in {TokA, TokB, TokBlank} : GetTokenValidate(p, t)
    \/ \E p \in {1, 2} : GetTokenLookup(p)
    \/ \E p \in {1, 2}, cb \in Callbacks : GetTokenNotify(p, cb, MaxFetches)
    \/ \E p \in {1, 2} : GetTokenSend(p, MaxFetches)
    \/ \E p \in {1, 2} :
          \E r \in Responses(AuthHeader(arg[p]), {DefaultCacheFor},
                              {FailResponse("json", 401, InvalidTokenCode), ObjectResponse(200)}) :
              GetTokenCheck(p, r)
    \/ \E p \in {1, 2} : GetTokenBuild(p)
    \/ \E p \in {1, 2} : GetTokenStore(p)
    \/ AdvanceBetween(StartTime + TTLSeconds)

SpecFine == Init(1..MaxSize) /\ [][NextFine]_vars

(* The construction of a client, sync or async, from every kind of argument *)
CreateSizes == {<<>>} \cup {<<n>> : n \in (0 - MaxSize)..MaxSize}

InitCreate ==
    /\ \E impl \in {"async", "sync"}, url \in {UrlOk, TokBlank, TokNone, TokInt},
          size \in CreateSizes, timer \in {"unpassed", "None", "timer"} :
            client = NewClient(impl, CreateArgs(url, size, timer))
    /\ token_cache = NoCache
    /\ user_cache = NoCache
    /\ clock = StartTime
    /\ pc = [p \in {1, 2} |-> "idle"]
    /\ arg = [p \in {1, 2} |-> NoTok]
    /\ miss_calls = 0
    /\ fetches = 0
    /\ purged = [p \in {1, 2} |-> FALSE]
    /\ last = [op |-> "init", task |-> 0, token |-> NoTok, cb |-> "", result |-> NoResult,
               removed |-> {}, resp |-> NoResponse, purged |-> FALSE, replaced |-> FALSE,
               after_hit |-> NoTok]
    /\ fill = [ok |-> TRUE, keys |-> <<>>]
    /\ hit_key = NoTok
    /\ trace = [ok |-> TRUE, keys |-> <<>>]
    /\ inserted = EmptyMap
    /\ inserted_at = EmptyMap
    /\ locals = [p \in {1, 2} |-> NoLocals]

NextCreate ==
    \/ AsyncCreate
    \/ \E r \in RootResponses : AsyncCreateResume(r)
    \/ \E r \in RootResponses : SyncCreate(r)
    \/ \E t \in {TokA, TokBlank} : SyncGetToken(1, t)

SpecCreate == InitCreate /\ [][NextCreate]_vars

(* Two tasks calling get_token, either of which may be cancelled while its *)
(* request is in flight                                                    *)
NextCancel ==
    \/ Steps({1, 2}, {TokA, TokB, TokC}, {"ok"}, {DefaultCacheFor, 0},
             {FailResponse("json", 401, InvalidTokenCode)}, {StartTime + TTLSeconds}, MaxFetches)
    \/ \E p \in {1, 2} : GetTokenCancel(p)

SpecCancel == Init(1..MaxSize) /\ [][NextCancel]_vars

(* Two tasks running get_token statement by statement, every call seen to *)
(* its end.  A call starts only while the counters leave room for its      *)
(* callback and its request.  The event loop runs the task that holds it   *)
(* up to its next await, and resumes a task whose response has come once   *)
(* the loop is free, however often other calls start in between.           *)
TaskRuns(p) ==
    \/ GetTokenLookup(p)
    \/ \E cb \in {"ok", "raises"} : GetTokenNotify(p, cb, MaxFetches)
    \/ GetTokenSend(p, MaxFetches)
    \/ GetTokenBuild(p)
    \/ GetTokenStore(p)

TaskResumes(p) ==
    \E r \in Responses(AuthHeader(arg[p]), {DefaultCacheFor},
                       {FailResponse("json", 401, InvalidTokenCode)}) : GetTokenCheck(p, r)

NextLive ==
    \/ \E p \in {1, 2}, t \in {TokA, TokB} :
          /\ miss_calls < MaxFetches
          /\ fetches < MaxFetches
          /\ GetTokenValidate(p, t)
    \/ \E p \in {1, 2} : TaskRuns(p)
    \/ \E p \in {1, 2} : TaskResumes(p)
    \/ AdvanceBetween(StartTime + TTLSeconds)

SpecLive ==
    /\ Init(1..MaxSize)
    /\ [][NextLive]_vars
    /\ \A p \in {1, 2} : WF_vars(TaskRuns(p)) /\ SF_vars(TaskResumes(p))

----------------------------------------------------------------------------
(* C1.  Capacity invariant: in every reachable state, whatever the keys,   *)
(* the clock and the interleaving of the two tasks, the token cache holds  *)
(* at most cache_max_size entries.                                         *)
C1_Capacity == Len(token_cache.cache) <= token_cache.maxsize

(* A full cache into which an insertion has just evicted, with the other   *)
(* task suspended in its own fetch.                                        *)
C1_Witness ==
    /\ last.op = "resume"
    /\ last.removed /= {}
    /\ Len(token_cache.cache) = token_cache.maxsize
    /\ \E p \in {1, 2} : pc[p] = "fetching"

----------------------------------------------------------------------------
(* C2 as claimed.  With a callback passed to every call, the callback      *)
(* count always equals the number of fetches issued.                       *)
C2_CountEqualsFetches == miss_calls = fetches

(* C2, amended.  A call served from the cache invokes the callback zero    *)
(* times and issues no fetch; a call that misses invokes the callback it   *)
(* was given exactly once; it then issues exactly one fetch if the         *)
(* callback returns and none if the callback raises.  So every fetch comes *)
(* with exactly one invocation, and the callback count exceeds the number  *)
(* of fetches by the number of calls whose callback raised.                *)
C2_MissNotification ==
    [][ /\ (last'.op = "call" /\ last'.result.kind = "token")
            => (miss_calls' = miss_calls /\ fetches' = fetches)
        /\ (last'.op = "call" /\ last'.cb = "ok")
            => (miss_calls' = miss_calls + 1 /\ fetches' = fetches + 1)
        /\ (last'.op = "call" /\ last'.cb = "raises")
            => (miss_calls' = miss_calls + 1 /\ fetches' = fetches
                /\ last'.result = Raised("CallbackError"))
        /\ (last'.op = "call" /\ last'.cb = "none")
            => (miss_calls' = miss_calls /\ fetches' = fetches + 1)
        /\ last'.op /= "call" => (miss_calls' = miss_calls /\ fetches' = fetches)
      ]_vars

(* A hit after two notified fetches and one callback that raised. *)
C2_Witness ==
    /\ last.op = "call"
    /\ last.result.kind = "token"
    /\ fetches = 2
    /\ miss_calls = 3

----------------------------------------------------------------------------
(* C3.  TTL expiry: a get_token for a key whose entry has an expiration    *)
(* at or before the timer's now (the boundary now = expiration included)   *)
(* is a miss: nothing is returned from the cache, the entry is removed     *)
(* from the map and, unless the miss callback raises, the token is fetched *)
(* again.  With now before the expiration the stored value is returned.    *)
C3_TTLExpiry ==
    [][ \A k \in DOMAIN token_cache.expire_times :
          (last'.op = "call" /\ last'.token = k) =>
             IF clock * MsPerSec >= token_cache.expire_times[k]
             THEN /\ last'.result.kind /= "token"
                  /\ k \notin Keys(token_cache')
                  /\ last'.removed = {k}
                  /\ last'.cb /= "raises" =>
                        (fetches' = fetches + 1 /\ pc'[last'.task] = "fetching")
             ELSE /\ last'.result = Returned(Lookup(token_cache, k))
                  /\ k \in Keys(token_cache')
                  /\ fetches' = fetches
      ]_vars

(* A lookup at the very instant of expiration (inserted at StartTime with  *)
(* the default cachefor, looked up TTLSeconds later) that removed the      *)
(* entry and sent the request again.                                       *)
C3_Witness ==
    /\ last.op = "call"
    /\ last.removed = {last.token}
    /\ clock = StartTime + TTLSeconds
    /\ pc[last.task] = "fetching"

----------------------------------------------------------------------------
(* C4.  LRU eviction: starting from the empty cache of capacity N, once    *)
(* N + 1 distinct keys have been stored with no hit and no clock advance   *)
(* in between, exactly one entry has been evicted, by the last store, and  *)
(* it is the key stored first; the other N keys are cached, in the order   *)
(* they were stored.  Up to N keys nothing is evicted.                     *)
C4_LRUEviction ==
    fill.ok =>
        /\ Len(fill.keys) <= token_cache.maxsize => KeyOrder(token_cache) = fill.keys
        /\ Len(fill.keys) = token_cache.maxsize + 1 =>
              /\ KeyOrder(token_cache) = Tail(fill.keys)
              /\ IsStore(last) => last.removed = {Head(fill.keys)}

(* Three distinct keys stored into a cache of two, the last store evicting *)
C4_Witness ==
    /\ fill.ok
    /\ token_cache.maxsize = 2
    /\ Len(fill.keys) = 3
    /\ IsStore(last)
    /\ last.removed /= {}

----------------------------------------------------------------------------
(* C5 as claimed.  Whenever key K was hit in a full cache and the next     *)
(* change of the cache is the store of a new key, that store evicts some   *)
(* entry and the entry is not K.                                           *)
C5_HitProtects ==
    [][ (IsStore(last') /\ last'.after_hit /= NoTok /\ last'.token \notin Keys(token_cache))
            => (last'.removed /= {} /\ last'.after_hit \notin last'.removed)
      ]_vars

(* C5, amended.  The same, for a capacity of at least 2 and a K that has   *)
(* not expired when the new key is stored: K stays cached, and what the    *)
(* store removes is every expired entry or, when none has expired, the     *)
(* one entry least recently hit or stored.                                 *)
C5_RecencyRefresh ==
    [][ ( /\ IsStore(last')
          /\ last'.after_hit /= NoTok
          /\ last'.token \notin Keys(token_cache)
          /\ token_cache.maxsize >= 2
          /\ ~( /\ last'.after_hit \in DOMAIN token_cache.expire_times
                /\ token_cache.expire_times[last'.after_hit] <= clock * MsPerSec ) )
        => LET gone == {k \in DOMAIN token_cache.expire_times :
                          token_cache.expire_times[k] <= clock * MsPerSec}
           IN /\ last'.after_hit \in Keys(token_cache')
              /\ last'.after_hit \notin last'.removed
              /\ last'.removed = IF gone /= {} THEN gone ELSE {token_cache.cache[1].key}
      ]_vars

(* A new key stored into a full cache of two right after a hit, the other  *)
(* entry evicted.                                                          *)
C5_Witness ==
    /\ IsStore(last)
    /\ last.after_hit /= NoTok
    /\ last.after_hit \in Keys(token_cache)
    /\ last.token /= last.after_hit
    /\ token_cache.maxsize = 2
    /\ Cardinality(last.removed) = 1

----------------------------------------------------------------------------
(* C6 as claimed.  Capacity 3: A, B, C stored (misses), A, B, C read       *)
(* (hits), D stored, then A is a miss and D, B, C are hits.                *)
C6_ClaimedHits == <<FALSE, FALSE, FALSE, TRUE, TRUE, TRUE, FALSE, FALSE, TRUE, TRUE, TRUE>>

C6_ScenarioAsClaimed ==
    (trace.ok /\ token_cache.maxsize = ScenarioSize) =>
        \A i \in 1..Len(trace.keys) : trace.keys[i].hit = C6_ClaimedHits[i]

(* C6, amended.  Capacity 3: A, B, C are stored with no eviction; A, B, C  *)
(* are then hits; storing D evicts A; A is then a miss, and its fetch      *)
(* stores A again, evicting B; after that D is a hit, B is a miss (its     *)
(* store evicts C) and C is a miss.                                        *)
C6_ActualHits == <<FALSE, FALSE, FALSE, TRUE, TRUE, TRUE, FALSE, FALSE, TRUE, FALSE, FALSE>>

C6_Scenario ==
    (trace.ok /\ token_cache.maxsize = ScenarioSize) =>
        /\ \A i \in 1..Len(trace.keys) : trace.keys[i].hit = C6_ActualHits[i]
        /\ Len(trace.keys) \in 3..6 => Keys(token_cache) = {TokA, TokB, TokC}
        /\ Len(trace.keys) \in {3, 6} => KeyOrder(token_cache) = <<TokA, TokB, TokC>>
        /\ Len(trace.keys) = 7 => KeyOrder(token_cache) = <<TokB, TokC, TokD>>
        /\ (Len(trace.keys) = 7 /\ IsStore(last)) => last.removed = {TokA}
        /\ (Len(trace.keys) = 8 /\ IsStore(last)) => last.removed = {TokB}
        /\ (Len(trace.keys) = 10 /\ IsStore(last)) => last.removed = {TokC}

(* The whole scenario played *)
C6_Witness ==
    /\ trace.ok
    /\ token_cache.maxsize = ScenarioSize
    /\ Len(trace.keys) = Len(Script)

----------------------------------------------------------------------------
(* C7.  Entry expiration: a store gives its entry the expiration           *)
(* (timer at the store) + (cachefor of the stored record, in the timer's   *)
(* unit), a second store of the key computing it anew; and until a key is  *)
(* stored again its entry keeps its value and its expiration.              *)
C7_EntryExpiration ==
    [][ /\ IsStore(last') =>
            /\ Lookup(token_cache', last'.token) = last'.result.value
            /\ last'.token \in DOMAIN token_cache'.expire_times
            /\ token_cache'.expire_times[last'.token]
                  = clock' * MsPerSec + last'.result.value.cachefor
        /\ \A k \in Keys(token_cache') :
              (IsStore(last') /\ k = last'.token) \/
                 /\ k \in Keys(token_cache)
                 /\ Lookup(token_cache', k) = Lookup(token_cache, k)
                 /\ (k \in DOMAIN token_cache'.expire_times)
                       = (k \in DOMAIN token_cache.expire_times)
                 /\ k \in DOMAIN token_cache.expire_times =>
                       token_cache'.expire_times[k] = token_cache.expire_times[k]
      ]_vars

(* What does hold of C7: the same, with the expiration present only for a  *)
(* record whose cachefor is positive.                                      *)
C7_ExpirationWhenPositive ==
    [][ /\ IsStore(last') =>
            /\ Lookup(token_cache', last'.token) = last'.result.value
            /\ IF last'.result.value.cachefor > 0
               THEN /\ last'.token \in DOMAIN token_cache'.expire_times
                    /\ token_cache'.expire_times[last'.token]
                          = clock' * MsPerSec + last'.result.value.cachefor
               ELSE last'.token \notin DOMAIN token_cache'.expire_times
        /\ \A k \in Keys(token_cache') :
              (IsStore(last') /\ k = last'.token) \/
                 /\ k \in Keys(token_cache)
                 /\ Lookup(token_cache', k) = Lookup(token_cache, k)
                 /\ (k \in DOMAIN token_cache'.expire_times)
                       = (k \in DOMAIN token_cache.expire_times)
                 /\ k \in DOMAIN token_cache.expire_times =>
                       token_cache'.expire_times[k] = token_cache.expire_times[k]
      ]_vars

----------------------------------------------------------------------------
(* C8: a call whose token is not a string, or is a string that is empty or *)
(* holds nothing but whitespace, ends with a ValueError, and the step      *)
(* changes nothing: the cache is neither read nor written, no callback is  *)
(* counted and no request goes out.                                        *)
OnlyWhitespace(token) == \A i \in 1..Len(token.chars) : token.chars[i] \in Whitespace

C8_Validation ==
    [][ (last'.op = "call" /\ (last'.token.type /= "str" \/ OnlyWhitespace(last'.token))) =>
            /\ last'.result = Raised("ValueError")
            /\ UNCHANGED <<token_cache, clock, pc, arg, purged, miss_calls, fetches>>
      ]_vars

C8_Witness ==
    /\ last.op = "call"
    /\ last.token = TokBlank
    /\ last.result = Raised("ValueError")
    /\ token_cache.cache /= <<>>
    /\ fetches > 0

----------------------------------------------------------------------------
(* C9: all-or-nothing.  The entry of a key: present or not, its value, its *)
(* expiration.                                                             *)
Entry(c, k) ==
    [present |-> k \in Keys(c),
     value |-> Lookup(c, k),
     expiration |-> IF k \in DOMAIN c.expire_times THEN <<c.expire_times[k]>> ELSE <<>>]

(* C9 as stated: a call that succeeds returns a record that is in the      *)
(* cache under its key when it returns; no step of a call that fails       *)
(* changes the entry of its key, so the call that fails has not deleted an *)
(* entry by its lookup either.                                             *)
C9_AllOrNothing ==
    [][ /\ last'.result.kind = "token" =>
              Lookup(token_cache', last'.token) = last'.result.value
        /\ last'.result.kind = "error" =>
              /\ Entry(token_cache', last'.token) = Entry(token_cache, last'.token)
              /\ ~last'.purged
      ]_vars

(* C9: a call that succeeds returns a record that is in the cache under    *)
(* its key when it returns; a call that fails leaves every entry of the    *)
(* cache as it was, but for the entry of its key when that entry had       *)
(* expired by the time the call looked it up: the lookup has deleted it,   *)
(* and the failure does not bring it back.                                 *)
C9_AllOrNothingButExpired ==
    [][ /\ last'.result.kind = "token" =>
              Lookup(token_cache', last'.token) = last'.result.value
        /\ (last'.result.kind = "error" /\ last'.op = "call") =>
              \/ token_cache' = token_cache
              \/ /\ last'.token \in Keys(token_cache)
                 /\ last'.token \in DOMAIN token_cache.expire_times
                 /\ token_cache.expire_times[last'.token] <= clock * MsPerSec
                 /\ token_cache' = CacheDelete(token_cache, last'.token)
        /\ (last'.result.kind = "error" /\ last'.op = "resume") =>
              token_cache' = token_cache
      ]_vars

C9_Witness ==
    /\ last.op = "resume"
    /\ last.result.kind = "error"
    /\ last.purged
    /\ token_cache.cache /= <<>>

----------------------------------------------------------------------------
(* C10: when the request of a call fails, the call ends with that failure: *)
(* it does not return a record, whatever the cache holds for the token by  *)
(* then (an entry that has expired included), it sends no second request,  *)
(* and it does not change the cache.                                       *)
FetchFailed(r) == r.kind \in {"transport", "nonjson"} \/ r.status /= 200

C10_FailurePropagates ==
    [][ (last'.op = "resume" /\ FetchFailed(last'.resp)) =>
            /\ last'.result = Raised(Get(last'.resp).err)
            /\ fetches' = fetches
            /\ pc'[last'.task] = "idle"
            /\ token_cache' = token_cache
      ]_vars

C10_Witness ==
    /\ last.op = "resume"
    /\ FetchFailed(last.resp)
    /\ last.result.kind = "error"
    /\ last.token \in DOMAIN token_cache.expire_times
    /\ token_cache.expire_times[last.token] <= clock * MsPerSec

----------------------------------------------------------------------------
(* C11 as stated: whatever the token and whatever the service answers, a   *)
(* call of get_token that fails (other than by its own callback raising)   *)
(* fails with ValueError (validation), InvalidTokenError or IOError (the   *)
(* service error), and with nothing else.                                  *)
C11_ClosedTaxonomy ==
    [][ (last'.result.kind = "error" /\ last'.cb /= "raises") =>
            last'.result.err \in {"ValueError", "InvalidTokenError", "IOError"}
      ]_vars

(* What does hold: the failures of the transport, of a JSON error body     *)
(* without "error", of an illegal-user appcode and of a 200 body without   *)
(* the Token fields reach the caller as they are.                          *)
C11_ActualTaxonomy ==
    [][ (last'.result.kind = "error" /\ last'.cb /= "raises") =>
            last'.result.err \in {"ValueError", "InvalidTokenError", "IOError",
                                  "httpx.TransportError", "InvalidUserError",
                                  "KeyError", "TypeError"}
      ]_vars

----------------------------------------------------------------------------
(* C12 as stated: create, of the sync client as of the async one, called   *)
(* with a usable base_url and a cache_max_size below 1 or the timer None,  *)
(* fails with the ValueError of that argument, and fails before a request  *)
(* is sent and before an HTTP client is opened.                            *)
BadCreateArgs(args) ==
    /\ RequireStringOk(args.base_url)
    /\ \/ args.cache_max_size /= <<>> /\ args.cache_max_size[1] < 1
       \/ args.timer = "None"

ExpectedCreateError(args) ==
    IF args.cache_max_size /= <<>> /\ args.cache_max_size[1] < 1
    THEN "ValueError: cache_max_size must be > 0"
    ELSE "ValueError: timer is required"

C12_Construction ==
    [][ (client.stage = "new" /\ client'.stage /= "new" /\ BadCreateArgs(client.args)) =>
            /\ client'.stage = "failed"
            /\ client'.error = ExpectedCreateError(client.args)
            /\ client'.requests = 0
            /\ ~client'.http_open
      ]_vars

(* What does hold: the same of the async client alone. *)
C12_AsyncConstruction ==
    [][ (client.impl = "async" /\ client.stage = "new" /\ client'.stage /= "new"
            /\ BadCreateArgs(client.args)) =>
            /\ client'.stage = "failed"
            /\ client'.error = ExpectedCreateError(client.args)
            /\ client'.requests = 0
            /\ ~client'.http_open
      ]_vars

----------------------------------------------------------------------------
(* C13: the token resolver and the user resolver each have a cache of      *)
(* their own.  No step of get_token changes the user cache and no step of  *)
(* get_user changes the token cache; and whether get_user hits or misses   *)
(* for a token depends on the user cache alone: it returns a cached record *)
(* exactly when the user cache holds a live entry for the token, and that  *)
(* record is the entry's, whatever get_token has stored for the token.     *)
Live(c, k, now) == k \in Keys(c) /\ ~Expired(c, k, now)

----------------------------------------------------------------------------
(* C14: nothing keeps two tasks from fetching the same token at once.      *)
(* Whenever a call stores its record, another task's record for the same   *)
(* token having been stored since the call missed or not, the cache then   *)
(* holds exactly one entry for the token, with the value this call returns *)
(* and the expiration this store computes (none for a cachefor that is not *)
(* positive), and no more entries than its capacity.                       *)
EntriesOf(c, k) == {i \in 1..Len(c.cache) : c.cache[i].key = k}

C14_LastWriteWins ==
    [][ IsStore(last') =>
            /\ Cardinality(EntriesOf(token_cache', last'.token)) = 1
            /\ Lookup(token_cache', last'.token) = last'.result.value
            /\ IF last'.result.value.cachefor > 0
               THEN /\ last'.token \in DOMAIN token_cache'.expire_times
                    /\ token_cache'.expire_times[last'.token]
                          = clock' * MsPerSec + last'.result.value.cachefor
               ELSE last'.token \notin DOMAIN token_cache'.expire_times
            /\ Len(token_cache'.cache) <= token_cache'.maxsize
      ]_vars

(* Both tasks missed the same token and fetched it; the other task's       *)
(* record was in the cache when this one stored its own, later on the      *)
(* timer, and the entry has the later expiration.                          *)
C14_Witness ==
    /\ last.op = "resume"
    /\ last.replaced
    /\ fetches >= 2
    /\ miss_calls >= 2
    /\ clock > StartTime
    /\ last.result.value.cachefor = DefaultCacheFor
    /\ token_cache.expire_times[last.token] = clock * MsPerSec + DefaultCacheFor
    /\ pc = [p \in {1, 2} |-> "idle"]
    /\ Len(token_cache.cache) = 1

----------------------------------------------------------------------------
(* C15 as stated, for the calls a client starts with: the sync client      *)
(* takes what the async client takes and ends as the async client does.    *)
(* create with the same arguments and the same answer of the service ends  *)
(* in the same stage, with the same error and the same number of requests; *)
(* get_token on the client built fails with ValueError for an unusable     *)
(* token and otherwise goes on (to the lookup, the callback, the request). *)
AsyncCreateOutcome(args, r) ==
    IF AsyncInitError(args) /= ""
    THEN [stage |-> "failed", error |-> AsyncInitError(args), requests |-> 0]
    ELSE IF CreateError(r) /= ""
    THEN [stage |-> "failed", error |-> CreateError(r), requests |-> 1]
    ELSE [stage |-> "ready", error |-> "", requests |-> 1]

C15_SyncAsyncEquivalence ==
    [][ /\ (client.impl = "sync" /\ client.stage = "new" /\ client'.stage /= "new") =>
              [stage |-> client'.stage, error |-> client'.error, requests |-> client'.requests]
                 = AsyncCreateOutcome(client.args, client'.answer)
        /\ (client.impl = "sync" /\ last'.op = "call") =>
              last'.result = IF RequireStringOk(last'.token) THEN NoResult
                             ELSE Raised("ValueError")
      ]_vars

----------------------------------------------------------------------------
(* C16 as stated: a record fetched with a cachefor of 0 or less is not     *)
(* stored: the call fails with the configuration error (ValueError) and    *)
(* leaves the cache as it was; and every entry of the cache has an         *)
(* expiration.                                                             *)
C16_NonPositiveTTLRejected ==
    [][ /\ (last'.op = "resume" /\ ~FetchFailed(last'.resp)
               /\ "cachefor" \in DOMAIN last'.resp.body /\ last'.resp.body.cachefor <= 0) =>
              /\ last'.result = Raised("ValueError")
              /\ token_cache' = token_cache
        /\ Keys(token_cache') \subseteq DOMAIN token_cache'.expire_times
      ]_vars

(* What the code does: the record is stored and returned, with no          *)
(* expiration, and from then on every lookup of the token is a hit,        *)
(* whatever the timer says, as long as the entry is not evicted.           *)
C16_StoredForEver ==
    [][ /\ (IsStore(last') /\ last'.result.value.cachefor <= 0) =>
              /\ last'.token \in Keys(token_cache')
              /\ last'.token \notin DOMAIN token_cache'.expire_times
        /\ (last'.op = "call" /\ last'.token \in Keys(token_cache)
               /\ last'.token \notin DOMAIN token_cache.expire_times) =>
              IsHit(last')
      ]_vars

----------------------------------------------------------------------------
(* C17: a call that finds a live entry for its token returns the record of *)
(* the most recent insertion for that token, the one the call that fetched *)
(* it returned, and sends no request: it ends in the step of the lookup,   *)
(* with the callback not called.                                           *)
C17_HitReturnsStored ==
    [][ IsHit(last') =>
            /\ last'.token \in DOMAIN inserted
            /\ last'.result.value = inserted[last'.token]
            /\ fetches' = fetches
            /\ miss_calls' = miss_calls
            /\ pc' = pc
      ]_vars

(* A hit for a token that two tasks have fetched and stored in turn *)
C17_Witness ==
    /\ IsHit(last)
    /\ fetches >= 2
    /\ Keys(token_cache) = {last.token}
    /\ token_cache.maxsize > 1
    /\ last.result.value.cachefor = DefaultCacheFor
    /\ clock > StartTime

----------------------------------------------------------------------------
(* C18: the cache key and the token sent to the service are the token as   *)
(* the caller passed it.  A store adds no key but the raw token of its     *)
(* call, with the record the service gave for that raw token; a hit needs  *)
(* a live entry under the raw token itself and returns the record last     *)
(* inserted by a call with that very token, never one inserted for its     *)
(* trimmed or padded form.                                                 *)
C18_RawTokenKey ==
    [][ /\ IsStore(last') =>
              /\ Keys(token_cache') \ Keys(token_cache) \subseteq {last'.token}
              /\ last'.token \in Keys(token_cache')
              /\ last'.result.value.user = last'.token.chars
        /\ IsHit(last') =>
              /\ last'.token \in Keys(token_cache)
              /\ last'.token \in DOMAIN inserted
              /\ last'.result.value = inserted[last'.token]
              /\ last'.result.value.user = last'.token.chars
      ]_vars

(* A miss for "A" while the cache holds a live entry for " A" *)
C18_Witness ==
    /\ last.op = "call"
    /\ last.token = TokA
    /\ last.result = NoResult
    /\ TokPadA \in Keys(token_cache)
    /\ ~Expired(token_cache, TokPadA, clock)
    /\ TokA \notin Keys(token_cache)

----------------------------------------------------------------------------
(* C19 as stated: an entry leaves the cache only (a) as the least recently *)
(* used entry, when a new key is stored into a full cache, or (b) expired, *)
(* when it is itself looked up or stored; and storing a new key into a     *)
(* full cache removes exactly the least recently used entry.               *)
Removed == Keys(token_cache) \ Keys(token_cache')

StoresNewKey == IsStore(last') /\ ~Live(token_cache, last'.token, clock)

C19_Lifecycle ==
    [][ /\ \A k \in Removed :
              \/ /\ StoresNewKey
                 /\ Full(token_cache)
                 /\ k = Head(KeyOrder(token_cache))
              \/ /\ last'.op = "call" \/ IsStore(last')
                 /\ k = last'.token
                 /\ Expired(token_cache, k, clock)
        /\ (StoresNewKey /\ last'.token \notin Keys(token_cache) /\ Full(token_cache)) =>
              Removed = {Head(KeyOrder(token_cache))}
      ]_vars

(* C19: an entry leaves the cache only (a) as the least recently used of   *)
(* the entries that have not expired, when a new key is stored and those   *)
(* entries alone fill the cache, (b) expired, when it is itself looked up, *)
(* or (c) expired, when a new key is stored: such a store removes every    *)
(* expired entry, whatever its key, the cache full or not.  A step removes *)
(* at most one entry that has not expired, and storing a new key into a    *)
(* full cache none of whose entries has expired removes exactly the least  *)
(* recently used one.                                                      *)
LiveOrder(c, now) == SelectSeq(KeyOrder(c), LAMBDA k : ~Expired(c, k, now))

C19_LifecycleWithPurge ==
    [][ /\ \A k \in Removed :
              \/ /\ StoresNewKey
                 /\ ~Expired(token_cache, k, clock)
                 /\ Len(LiveOrder(token_cache, clock)) >= token_cache.maxsize
                 /\ k = Head(LiveOrder(token_cache, clock))
              \/ /\ last'.op = "call"
                 /\ k = last'.token
                 /\ Expired(token_cache, k, clock)
              \/ /\ StoresNewKey
                 /\ Expired(token_cache, k, clock)
        /\ StoresNewKey =>
              \A k \in Keys(token_cache) \ {last'.token} :
                  Expired(token_cache, k, clock) => k \in Removed
        /\ Cardinality({k \in Removed : ~Expired(token_cache, k, clock)}) <= 1
        /\ (StoresNewKey /\ Full(token_cache)
               /\ \A k \in Keys(token_cache) : ~Expired(token_cache, k, clock)) =>
              Removed = {Head(KeyOrder(token_cache))}
      ]_vars

(* A store that removed the expired entry of another key from a cache that *)
(* was not full                                                            *)
C19_Witness ==
    /\ IsStore(last)
    /\ last.removed /= {}
    /\ last.token \notin last.removed
    /\ Len(token_cache.cache) < token_cache.maxsize

----------------------------------------------------------------------------
(* C20: a call of get_token gives way to other tasks only while its        *)
(* request is outstanding.  From its first statement to the request sent   *)
(* (or to its return or failure before that), and from the response        *)
(* received to its return, every step taken is a statement of that call:   *)
(* while a task is past one statement of either stretch and not at the     *)
(* end of it, the next step is its own, and neither another task nor the   *)
(* timer moves.                                                            *)
C20_SuspensionPoints ==
    [][ \A p \in {1, 2} : pc[p] \notin {"idle", "fetching"} => last'.task = p ]_vars

(* One task has built its Token and is about to store it, while the other *)
(* waits for the response to its own request for the same token.           *)
C20_Witness ==
    /\ pc[1] = "fetching"
    /\ pc[2] = "built"
    /\ arg[1] = arg[2]
    /\ fetches = 2

----------------------------------------------------------------------------
(* C21: a call cancelled while suspended at its request ends with          *)
(* CancelledError and does nothing to the cache: the step of the           *)
(* cancellation leaves every entry, its position and its expiration as     *)
(* they were, so it inserts nothing under the call's key, evicts nothing,  *)
(* leaves the cache within its capacity and adds no entry that lacks an    *)
(* expiration.  A suspended call takes no step of its own, so whatever     *)
(* changed in the cache since the call suspended is the work of the other  *)
(* task.                                                                   *)
C21_CancellationSafety ==
    [][ last'.op = "cancel" =>
          /\ pc[last'.task] = "fetching"
          /\ pc'[last'.task] = "idle"
          /\ last'.result = Raised("CancelledError")
          /\ token_cache' = token_cache
          /\ Entry(token_cache', last'.token) = Entry(token_cache, last'.token)
          /\ last'.removed = {}
          /\ Len(token_cache'.cache) <= token_cache'.maxsize
          /\ (Keys(token_cache') \ DOMAIN token_cache'.expire_times)
                \subseteq (Keys(token_cache) \ DOMAIN token_cache.expire_times)
      ]_vars

(* A call for a token was cancelled while the cache, full, held the record *)
(* the other task had stored for that token in the meantime.               *)
C21_Witness ==
    /\ last.op = "cancel"
    /\ last.token \in Keys(token_cache)
    /\ Full(token_cache)
    /\ token_cache.maxsize > 1

----------------------------------------------------------------------------
(* C22: get_token invokes on_cache_miss after its cache lookup has missed  *)
(* (the token is not in the cache by then) and before its request goes     *)
(* out, and the request goes out only once the callback has returned.  A   *)
(* callback that raises ends the call with its exception: no request is    *)
(* sent for the call and the cache is left as the lookup left it, with     *)
(* nothing inserted.                                                       *)
C22_MissCallback ==
    [][ /\ miss_calls' /= miss_calls =>
              /\ last'.op = "notify"
              /\ pc[last'.task] = "missed"
              /\ last'.token \notin Keys(token_cache)
              /\ fetches' = fetches
              /\ token_cache' = token_cache
        /\ fetches' /= fetches =>
              /\ last'.op = "send"
              /\ pc[last'.task] = "notified"
              /\ miss_calls' = miss_calls
        /\ (last'.op = "notify" /\ last'.cb = "raises") =>
              /\ miss_calls' = miss_calls + 1
              /\ last'.result = Raised("CallbackError")
              /\ pc'[last'.task] = "idle"
              /\ fetches' = fetches
              /\ token_cache' = token_cache
              /\ last'.token \notin Keys(token_cache')
      ]_vars

(* The callback of a call raised, after an earlier call had stored a       *)
(* record and while the other task waits for its response.                 *)
C22_Witness ==
    /\ last.op = "notify"
    /\ last.cb = "raises"
    /\ last.result = Raised("CallbackError")
    /\ pc[last.task] = "idle"
    /\ \E q \in {1, 2} \ {last.task} : pc[q] = "fetching"
    /\ token_cache.cache /= <<>>

----------------------------------------------------------------------------
(* C23: no sliding expiration.  A hit moves its entry to the most recently *)
(* used end of the cache and changes no expiration; the expiration of an   *)
(* entry that stays in the cache changes only when a call stores its key   *)
(* again; and a record is returned from the cache only while the timer is  *)
(* below the instant of its most recent insertion plus its cachefor.       *)
C23_NoSlidingExpiration ==
    [][ /\ IsHit(last') =>
              /\ token_cache'.expire_times = token_cache.expire_times
              /\ token_cache'.cache[Len(token_cache'.cache)].key = last'.token
              /\ last'.token \in DOMAIN inserted_at
              /\ clock * MsPerSec
                    < inserted_at[last'.token] * MsPerSec + inserted[last'.token].cachefor
        /\ \A k \in Keys(token_cache) \cap Keys(token_cache') :
              Entry(token_cache', k).expiration /= Entry(token_cache, k).expiration =>
                 IsStore(last') /\ last'.token = k
      ]_vars

(* What does hold of C23: the same, the bound on the timer being that of a *)
(* record whose cachefor is positive; a record whose cachefor is not is    *)
(* returned from the cache at any later reading of the timer.              *)
C23_NoSlidingWhenPositive ==
    [][ /\ IsHit(last') =>
              /\ token_cache'.expire_times = token_cache.expire_times
              /\ token_cache'.cache[Len(token_cache'.cache)].key = last'.token
              /\ last'.token \in DOMAIN inserted_at
              /\ inserted[last'.token].cachefor > 0 =>
                    clock * MsPerSec
                      < inserted_at[last'.token] * MsPerSec + inserted[last'.token].cachefor
              /\ inserted[last'.token].cachefor <= 0 =>
                    last'.token \notin DOMAIN token_cache.expire_times
        /\ \A k \in Keys(token_cache) \cap Keys(token_cache') :
              Entry(token_cache', k).expiration /= Entry(token_cache, k).expiration =>
                 IsStore(last') /\ last'.token = k
      ]_vars

(* A record stored at the start was returned from the cache one second     *)
(* before its expiration, after an earlier hit, and still expires when it  *)
(* was to.                                                                 *)
C23_Witness ==
    /\ IsHit(last)
    /\ clock = StartTime + AlmostTTL
    /\ last.token \in DOMAIN token_cache.expire_times
    /\ inserted_at[last.token] = StartTime
    /\ token_cache.expire_times[last.token] = StartTime * MsPerSec + DefaultCacheFor
    /\ Len(token_cache.cache) = 2

----------------------------------------------------------------------------
(* C24: the handshake of create.  The step of create that takes the answer *)
(* of the service ends with a client exactly when the answer has status    *)
(* 200, a JSON body and the servicename "Authentication Service"; with any *)
(* other answer create fails with an IOError, and by then the HTTP client  *)
(* it had opened is closed.                                                *)
Handshake == client.answer = NoAnswer /\ client'.answer /= NoAnswer

IsAuthService(r) ==
    /\ r.kind = "json"
    /\ r.status = 200
    /\ "servicename" \in DOMAIN r.body
    /\ r.body.servicename = "Authentication Service"

IOErrors == {"IOError", "IOError: not the KBase auth service"}

C24_Handshake ==
    [][ Handshake =>
          /\ client'.requests = 1
          /\ client'.stage \in {"ready", "failed"}
          /\ client'.stage = "ready" <=> IsAuthService(client'.answer)
          /\ client'.stage = "ready" => client'.http_open /\ client'.error = ""
          /\ client'.stage = "failed" =>
                /\ client'.error \in IOErrors
                /\ ~client'.http_open
      ]_vars

(* What does hold of C24: the same, the failure being whatever the request *)
(* or the check of the response raised, an IOError or not.                 *)
C24_HandshakeAnyError ==
    [][ Handshake =>
          /\ client'.requests = 1
          /\ client'.stage \in {"ready", "failed"}
          /\ client'.stage = "ready" <=> IsAuthService(client'.answer)
          /\ client'.stage = "ready" => client'.http_open /\ client'.error = ""
          /\ client'.stage = "failed" =>
                /\ client'.error = CreateError(client'.answer)
                /\ client'.error /= ""
                /\ ~client'.http_open
                /\ client'.error \notin IOErrors =>
                      \/ client'.answer.kind = "transport"
                      \/ client'.answer.kind = "json" /\ client'.answer.status /= 200
      ]_vars

----------------------------------------------------------------------------
(* C25: progress.  With the event loop fair to the tasks and every request *)
(* answered, by a response or by a failure, every call of get_token that   *)
(* has started comes to its end, returning a record or raising, whatever   *)
(* the other task does meanwhile with the same token or another.           *)
C25_Progress == \A p \in {1, 2} : (pc[p] /= "idle") ~> (pc[p] = "idle")

(* Both tasks wait for the response to a request for the same token, after *)
(* an earlier call has filled the cache.                                   *)
C25_Witness ==
    /\ pc[1] = "fetching"
    /\ pc[2] = "fetching"
    /\ arg[1] = arg[2]
    /\ Full(token_cache)

====
